---- MODULE Spec2Model ----
(***************************************************************************)
(* PolyLingua-Hub, speech_Recognizer: the streaming speech-to-text         *)
(* pipeline (asset provisioning, capture, streaming recognizer, fallback   *)
(* recognizer and the event queue), modelled from src/speech_Recognizer.p.py *)
(***************************************************************************)
EXTENDS Integers, Sequences, FiniteSets, TLC

VARIABLES
    \* ---- disk, as auto_download_model sees it
    fs_dirs,        \* the directories that exist, among "T" (target_dir) and "V"
    fs_files,       \* extracted member path -> mirror it came from (0: no file)
    zip_file,       \* the file at zip_path
    part_file,      \* the file at zip_path + ".part"
    \* ---- one call of auto_download_model
    prov_pc,        \* position of the call
    url_idx,        \* index in urls of the mirror of the current iteration
    arch,           \* layout of the archive the current mirror serves
    ext_i,          \* members extracted so far by _extract_zip
    result,         \* return value of the call ("none" while it runs)
    attempts,       \* mirrors contacted by urlopen in this call, in order
    entry_dir,      \* what target_dir was when the call began
    calls,          \* calls of auto_download_model begun so far
    prov_status,    \* last text given to ui_status_callback
    \* ---- one VoskStreamer
    vs_rec,         \* "unloaded", "failed" (load() returned False) or "loaded"
    vs_running,     \* self.running
    vs_queue,       \* self.queue: frames fed and not yet taken
    partial_interval_ms,
    last_partial_time,  \* self._last_partial_time
    loops,          \* decode-loop thread -> where it is in _loop
    dec_utt,        \* decoder: number of the utterance being decoded
    dec_hyp,        \* decoder: hypothesis of the utterance being decoded
    starts,         \* threads spawned by start()
    fed,            \* frames given to feed()
    partial_seen,   \* non-empty partial hypotheses the loop obtained: time, interval
    \* ---- LowLatencyCapture
    cap_pa,         \* self.pa is a PyAudio instance
    cap_chunk_ms,   \* self.chunk_ms
    cap_chunk,      \* self.chunk: samples asked of stream.read
    cap_running,    \* self.running
    cap_stream,     \* self.stream is an open stream
    cap_sink,       \* self.sink
    cap_loops,      \* _read_loop threads spawned
    cap_opens,      \* self.pa.open calls made
    cap_pc,         \* _read_loop thread -> where it is
    reads,          \* stream.read calls made
    routes,         \* where each frame read went, and whether the streamer ran
    \* ---- GoogleSegmentWorker
    gw_running,     \* self.running
    gw_pc,          \* _loop thread -> where it is
    gw_starts,      \* threads spawned by start()
    seg_outcomes,   \* what recognition did with each chunk taken, in order
    \* ---- GeminiStreamingAutoDLApp
    auto_pc,        \* _auto_model_and_start thread -> where it is
    load_pc,        \* _load thread of _load_vosk_model -> "none", the path it
                    \* was spawned for ("target" or "user"), or "done"
    closed,         \* _on_close has run
    received,       \* messages _process_queue has taken, in order
    \* ---- the module's queues
    segment_queue,
    message_queue

provVars == <<fs_dirs, fs_files, zip_file, part_file, prov_pc, url_idx, arch,
              ext_i, result, attempts, entry_dir, calls, prov_status>>

vsVars == <<vs_rec, vs_running, vs_queue, partial_interval_ms,
            last_partial_time, loops, dec_utt, dec_hyp, starts, fed,
            partial_seen>>

chunkVars == <<cap_chunk_ms, cap_chunk>>

capVars == <<cap_pa, chunkVars, cap_running, cap_stream, cap_sink, cap_loops,
             cap_opens, cap_pc, reads, routes>>

gwVars == <<gw_running, gw_pc, gw_starts, seg_outcomes>>

appVars == <<auto_pc, load_pc, closed, received>>

vars == <<provVars, vsVars, capVars, gwVars, appVars, segment_queue,
          message_queue>>

----------------------------------------------------------------------------
\* Bounds of the model
MaxCalls == 2
StreamChunks == 2

MaxStarts == 2
MaxFrames == 4
MaxQueue == 2
MaxReads == 2

\* Program constants
NumMirrors == 3
PartialUpdateMs == 80
SampleRate == 16000
ChunkMs == 20
SampleWidth == 2

----------------------------------------------------------------------------
\* Asset provisioning: _download_with_progress, _extract_zip, auto_download_model

Mirrors == 1..NumMirrors

\* Origin of a model directory that was installed before the program ran.
PreInstalled == NumMirrors + 1

\* What an archive can hold: the model under CONFIG["model_name"] ("exact"),
\* under another vosk-model* directory ("other"), loose files ("flat"), or
\* bytes zipfile cannot open ("bad").
Layouts == {"exact", "other", "flat", "bad"}

Paths == {"T/a", "T/b", "V/a", "V/b", "a", "b"}

Members(lay) ==
    CASE lay = "exact" -> <<"T/a", "T/b">>
      [] lay = "other" -> <<"V/a", "V/b">>
      [] lay = "flat"  -> <<"a", "b">>
      [] OTHER         -> <<>>

DirOf(p) ==
    CASE p \in {"T/a", "T/b"} -> {"T"}
      [] p \in {"V/a", "V/b"} -> {"V"}
      [] OTHER                -> {}

NoFile == [src |-> 0, lay |-> "none", n |-> 0]

NoFiles == [p \in Paths |-> 0]

TargetFiles == {p \in {"T/a", "T/b"} : fs_files[p] # 0}

\* What target_dir is on disk: no directory, an empty one, or one with files.
DirState ==
    IF "T" \notin fs_dirs THEN "absent"
    ELSE IF TargetFiles = {} THEN "empty" ELSE "nonempty"

\* A model directory that only needs the archive to be there as well.
ModelPresentWithZip == "T" \in fs_dirs /\ zip_file.src # 0

\* Line 195: os.path.isdir(target_dir)
ModelPresent == "T" \in fs_dirs

\* Line 210: os.path.isdir(possible), possible being target_dir
IsDirTarget == "T" \in fs_dirs

\* A loop that passes over the mirror after the one that failed.
NextUrlSkipping ==
    /\ url_idx' = url_idx + 2
    /\ prov_pc' = "trying"

\* The loop variable of "for url in urls" moves on (continue / fall through).
NextUrl ==
    /\ url_idx' = url_idx + 1
    /\ prov_pc' = "trying"

Return(r) ==
    /\ result' = r
    /\ prov_pc' = "done"

\* auto_download_model, lines 194-200: the early return or the start of the
\* loop (the parent directory, which makedirs ensures, always exists here).
ProvCall ==
    /\ prov_pc = "idle"
    /\ calls < MaxCalls
    /\ calls' = calls + 1
    /\ entry_dir' = DirState
    /\ attempts' = <<>>
    /\ ext_i' = 0
    /\ arch' = "none"
    /\ IF ModelPresent
       THEN /\ prov_status' = "Model already present"
            /\ Return(TRUE)
            /\ url_idx' = 0
       ELSE /\ url_idx' = 1
            /\ prov_pc' = "trying"
            /\ result' = "none"
            /\ UNCHANGED prov_status
    /\ UNCHANGED <<fs_dirs, fs_files, zip_file, part_file>>

\* Line 244-245: the urls are exhausted.
ProvExhausted ==
    /\ prov_pc = "trying"
    /\ url_idx > NumMirrors
    /\ prov_status' = "All downloads failed"
    /\ Return(FALSE)
    /\ UNCHANGED <<fs_dirs, fs_files, zip_file, part_file, url_idx, arch, ext_i,
                   attempts, entry_dir, calls>>

\* Lines 202-203, 148-154: urlopen answers and the .part file is opened "wb".
DownloadOpen ==
    /\ prov_pc = "trying"
    /\ url_idx \in Mirrors
    /\ attempts' = Append(attempts, url_idx)
    /\ \E lay \in Layouts :
         /\ arch' = lay
         /\ part_file' = [src |-> url_idx, lay |-> lay, n |-> 0]
    /\ prov_pc' = "streaming"
    /\ prov_status' = "Trying"
    /\ UNCHANGED <<fs_dirs, fs_files, zip_file, url_idx, ext_i, result,
                   entry_dir, calls>>

\* Lines 148-149, 171-174: urlopen raises; no file is touched.
DownloadRefused ==
    /\ prov_pc = "trying"
    /\ url_idx \in Mirrors
    /\ attempts' = Append(attempts, url_idx)
    /\ prov_status' = "Download error"
    /\ NextUrl
    /\ UNCHANGED <<fs_dirs, fs_files, zip_file, part_file, arch, ext_i, result,
                   entry_dir, calls>>

\* A download that writes straight to dest_path.
WriteChunkInPlace(part, zip) ==
    <<[part EXCEPT !.n = @ + 1], [part EXCEPT !.n = @ + 1]>>

\* Where out.write(chunk) puts the bytes of a chunk (line 154, 159).
WriteChunk(part, zip) ==
    <<[part EXCEPT !.n = @ + 1], zip>>

\* Lines 155-166: one chunk is read and written.
DownloadChunk ==
    /\ prov_pc = "streaming"
    /\ part_file.n < StreamChunks
    /\ LET w == WriteChunk(part_file, zip_file)
       IN  /\ part_file' = w[1]
           /\ zip_file' = w[2]
    /\ prov_status' = "Downloading"
    /\ UNCHANGED <<fs_dirs, fs_files, prov_pc, url_idx, arch, ext_i, result,
                   attempts, entry_dir, calls>>

\* Lines 156, 171-174: resp.read raises; the .part file stays as it is.
DownloadFail ==
    /\ prov_pc = "streaming"
    /\ prov_status' = "Download error"
    /\ NextUrl
    /\ UNCHANGED <<fs_dirs, fs_files, zip_file, part_file, arch, ext_i, result,
                   attempts, entry_dir, calls>>

\* Lines 157-158, 167-170, 206: end of stream, os.replace(tmp_path, dest_path).
DownloadFinish ==
    /\ prov_pc = "streaming"
    /\ part_file.n = StreamChunks
    /\ zip_file' = part_file
    /\ part_file' = NoFile
    /\ prov_status' = "Extracting model..."
    /\ ext_i' = 0
    /\ prov_pc' = "extract"
    /\ UNCHANGED <<fs_dirs, fs_files, url_idx, arch, result, attempts,
                   entry_dir, calls>>

\* Lines 178-187: one member is extracted. extract_to is
\* os.path.dirname(target_dir), so a member "T/a" lands in target_dir itself.
ExtractMember ==
    /\ prov_pc = "extract"
    /\ ext_i < Len(Members(zip_file.lay))
    /\ zip_file.lay # "bad"
    /\ LET p == Members(zip_file.lay)[ext_i + 1]
       IN  /\ fs_files' = [fs_files EXCEPT ![p] = zip_file.src]
           /\ fs_dirs' = fs_dirs \cup DirOf(p)
    /\ ext_i' = ext_i + 1
    /\ prov_status' = "Extracting"
    /\ UNCHANGED <<zip_file, part_file, prov_pc, url_idx, arch, result,
                   attempts, entry_dir, calls>>

\* Lines 178, 182, 189-192, 207-208: ZipFile or zf.extract raises; ok2 is
\* False and the loop goes to the next url.
ExtractFail ==
    /\ prov_pc = "extract"
    /\ \/ zip_file.lay = "bad"
       \/ ext_i < Len(Members(zip_file.lay))
    /\ prov_status' = "Extract error"
    /\ NextUrl
    /\ UNCHANGED <<fs_dirs, fs_files, zip_file, part_file, arch, ext_i, result,
                   attempts, entry_dir, calls>>

\* os.remove(zip_path) inside try/except: it removes the file or raises.
RemoveZip(removed) == IF removed THEN NoFile ELSE zip_file

\* Lines 208-223: the extraction returned True and possible (= target_dir,
\* CONFIG lines 102-104) is a directory.
LocateExact ==
    /\ prov_pc = "extract"
    /\ zip_file.lay # "bad"
    /\ ext_i = Len(Members(zip_file.lay))
    /\ IsDirTarget
    /\ \E removed \in BOOLEAN : zip_file' = RemoveZip(removed)
    /\ prov_status' = "Model ready"
    /\ Return(TRUE)
    /\ UNCHANGED <<fs_dirs, fs_files, part_file, url_idx, arch, ext_i, attempts,
                   entry_dir, calls>>

\* shutil.move(found, target_dir): the directory V becomes T.
MoveFiles ==
    [p \in Paths |->
        CASE p = "T/a" -> fs_files["V/a"]
          [] p = "T/b" -> fs_files["V/b"]
          [] p \in {"V/a", "V/b"} -> 0
          [] OTHER -> fs_files[p]]

\* Lines 224-243: possible is no directory, another vosk-model* directory is.
LocateOther ==
    /\ prov_pc = "extract"
    /\ zip_file.lay # "bad"
    /\ ext_i = Len(Members(zip_file.lay))
    /\ ~IsDirTarget
    /\ "V" \in fs_dirs
    /\ \E removed \in BOOLEAN : zip_file' = RemoveZip(removed)
    /\ prov_status' = "Model ready"
    /\ \E moved \in BOOLEAN :
         IF moved
         THEN /\ fs_files' = MoveFiles
              /\ fs_dirs' = (fs_dirs \ {"V"}) \cup {"T"}
         ELSE UNCHANGED <<fs_files, fs_dirs>>
    /\ Return(TRUE)
    /\ UNCHANGED <<part_file, url_idx, arch, ext_i, attempts, entry_dir, calls>>

\* Lines 225-230, 201: no vosk-model* directory was found: next url.
LocateNone ==
    /\ prov_pc = "extract"
    /\ zip_file.lay # "bad"
    /\ ext_i = Len(Members(zip_file.lay))
    /\ ~IsDirTarget
    /\ "V" \notin fs_dirs
    /\ NextUrl
    /\ UNCHANGED <<fs_dirs, fs_files, zip_file, part_file, arch, ext_i, result,
                   attempts, entry_dir, calls, prov_status>>

\* The caller has the result; auto_download_model can be called again.
ProvReturn ==
    /\ prov_pc = "done"
    /\ prov_pc' = "idle"
    /\ UNCHANGED <<fs_dirs, fs_files, zip_file, part_file, url_idx, arch, ext_i,
                   result, attempts, entry_dir, calls, prov_status>>

\* No call of auto_download_model yet; target_dir is d.
ProvInitWith(d) ==
    /\ fs_dirs = IF d = "absent" THEN {} ELSE {"T"}
    /\ fs_files = IF d = "installed"
                  THEN [p \in Paths |->
                          IF p \in {"T/a", "T/b"} THEN PreInstalled ELSE 0]
                  ELSE NoFiles
    /\ zip_file = NoFile
    /\ part_file = NoFile
    /\ prov_pc = "idle"
    /\ url_idx = 0
    /\ arch = "none"
    /\ ext_i = 0
    /\ result = "none"
    /\ attempts = <<>>
    /\ entry_dir = "none"
    /\ calls = 0
    /\ prov_status = ""

----------------------------------------------------------------------------
\* Events on message_queue. utt, at and iv are not in the program's messages:
\* they record the decoder's utterance, the time the loop read and the
\* interval it compared with, for the events the decode loop puts.

ColorReady == "ready"
ColorError == "error"
ColorListening == "listening"

Event(type, text, color, u, now, iv, seg) ==
    [type |-> type, text |-> text, color |-> color, utt |-> u, at |-> now,
     iv |-> iv, seg |-> seg]

Status(text, color) == Event("status", text, color, 0, 0, 0, 0)

Transcription(text, u) == Event("transcription", text, "", u, 0, 0, 0)

Partial(text, u, now, iv) == Event("partial", text, "", u, now, iv, 0)

Amplitude(value) == Event("amplitude", value, "", 0, 0, 0, 0)

\* Events of GoogleSegmentWorker; seg is the number of the chunk they are about.
SegStatus(text, color, seg) == Event("status", text, color, 0, 0, 0, seg)

SegTranscription(text, seg) == Event("transcription", text, "", 0, 0, 0, seg)

----------------------------------------------------------------------------
\* VoskStreamer

\* Values time.time()*1000.0 returns in the model (line 560). The wall
\* clock is not monotonic: any of them can be read at any call.
Times == {0, 50, 100, 160}

\* Values the partial slider sets (from_=30, to=600, 28 steps; line 671).
SliderStops == {50}

\* Texts the decoder's JSON holds: none, or words with white space around.
Texts == {"", "hi "}

\* A frame is what the decoder makes of it: "speech" (AcceptWaveform returns
\* False, the partial hypothesis becomes txt), "boundary" (AcceptWaveform
\* returns True, Result() holds txt) or "bad" (AcceptWaveform raises).
Frames ==
    [kind : {"speech", "boundary"}, txt : Texts] \cup {[kind |-> "bad", txt |-> ""]}

\* str.strip() on the texts of the model
Strip(t) == IF t = "hi " THEN "hi" ELSE t

Threads == 1..MaxStarts

\* The decode-loop threads that have not returned from _loop.
Live == {t \in Threads : loops[t] \in {"check", "get", "flush"}}

\* __init__, lines 490-498
VsInit ==
    /\ vs_rec = "unloaded"
    /\ vs_running = FALSE
    /\ vs_queue = <<>>
    /\ partial_interval_ms = PartialUpdateMs
    /\ last_partial_time = 0
    /\ loops = [t \in Threads |-> "none"]
    /\ dec_utt = 1
    /\ dec_hyp = ""
    /\ starts = 0
    /\ fed = 0
    /\ partial_seen = <<>>

\* load(), lines 500-521: the decoder is created, or a status says why not.
VsLoad ==
    /\ vs_rec = "unloaded"
    /\ \/ /\ vs_rec' = "loaded"
          /\ message_queue' = message_queue \o
                <<Status("Loading VOSK model...", ColorReady),
                  Status("VOSK model loaded", ColorReady)>>
       \/ /\ vs_rec' = "failed"
          /\ \E why \in {"VOSK import failed", "VOSK model path missing"} :
               message_queue' = Append(message_queue, Status(why, ColorError))
       \/ /\ vs_rec' = "failed"
          /\ message_queue' = message_queue \o
                <<Status("Loading VOSK model...", ColorReady),
                  Status("VOSK load failed", ColorError)>>
    /\ UNCHANGED <<vs_running, vs_queue, partial_interval_ms, last_partial_time,
                   loops, dec_utt, dec_hyp, starts, fed, partial_seen>>

\* A start() that only looks at the running flag.
StartRefusedIfRunning == vs_running

\* Line 524: if self.running or self.rec is None: return
StartRefused == vs_running \/ vs_rec # "loaded"

\* start(), lines 523-527
VsStart ==
    /\ starts < MaxStarts
    /\ IF StartRefused
       THEN UNCHANGED <<vs_running, loops, starts>>
       ELSE /\ vs_running' = TRUE
            /\ starts' = starts + 1
            /\ loops' = [loops EXCEPT ![starts + 1] = "check"]
    /\ UNCHANGED <<vs_rec, vs_queue, partial_interval_ms, last_partial_time,
                   dec_utt, dec_hyp, fed, partial_seen, message_queue>>

\* stop(), lines 529-530
VsStop ==
    /\ vs_running' = FALSE
    /\ UNCHANGED <<vs_rec, vs_queue, partial_interval_ms, last_partial_time,
                   loops, dec_utt, dec_hyp, starts, fed, partial_seen,
                   message_queue>>

\* feed(bts), lines 532-536: put_nowait on the unbounded self.queue
Feed(q, bts) == Append(q, bts)

\* feed(), called with a frame of the caller's
VsFeed ==
    /\ fed < MaxFrames
    /\ Len(vs_queue) < MaxQueue
    /\ fed' = fed + 1
    /\ \E f \in Frames : vs_queue' = Feed(vs_queue, f)
    /\ UNCHANGED <<vs_rec, vs_running, partial_interval_ms, last_partial_time,
                   loops, dec_utt, dec_hyp, starts, partial_seen, message_queue>>

\* _on_partial_change, lines 843-851, on the streamer
OnPartialChange ==
    /\ \E v \in SliderStops :
         /\ v # partial_interval_ms
         /\ partial_interval_ms' = v
    /\ UNCHANGED <<vs_rec, vs_running, vs_queue, last_partial_time, loops,
                   dec_utt, dec_hyp, starts, fed, partial_seen, message_queue>>

\* Line 540: while self.running
LoopCheck(t) ==
    /\ loops[t] = "check"
    /\ loops' = [loops EXCEPT ![t] = IF vs_running THEN "get" ELSE "flush"]
    /\ UNCHANGED <<vs_rec, vs_running, vs_queue, partial_interval_ms,
                   last_partial_time, dec_utt, dec_hyp, starts, fed,
                   partial_seen, message_queue>>

\* Lines 541-544: queue.get(timeout=0.5) raises queue.Empty
LoopTimeout(t) ==
    /\ loops[t] = "get"
    /\ vs_queue = <<>>
    /\ loops' = [loops EXCEPT ![t] = "check"]
    /\ UNCHANGED <<vs_rec, vs_running, vs_queue, partial_interval_ms,
                   last_partial_time, dec_utt, dec_hyp, starts, fed,
                   partial_seen, message_queue>>

\* A boundary that also shows the text as a partial of the utterance it closed.
BoundaryEventsEcho(txt, u, now, iv) ==
    IF Strip(txt) # ""
    THEN <<Transcription(Strip(txt), u), Partial(Strip(txt), u, now, iv)>>
    ELSE <<>>

\* Lines 547-554: what the loop puts at an utterance boundary
BoundaryEvents(txt, u, now, iv) ==
    IF Strip(txt) # "" THEN <<Transcription(Strip(txt), u)>> ELSE <<>>

\* A partial test that forgets the interval.
PartialDueAlways(p, now, last, iv) == p # ""

\* Line 561: p and (now - self._last_partial_time) >= self.partial_interval_ms
PartialDue(p, now, last, iv) == p # "" /\ (now - last) >= iv

\* A handler that reports the exception of a frame twice.
DecodeErrorEventsRepeated ==
    <<Status("VOSK error", ColorError), Status("VOSK error", ColorError)>>

\* Lines 566-567: what the loop puts when decoding a frame raises
DecodeErrorEvents == <<Status("VOSK error", ColorError)>>

\* Lines 541-567: a frame is taken and decoded; now is what time.time()*1000.0
\* returns if the loop reads it.
LoopDecode(t) ==
    /\ loops[t] = "get"
    /\ vs_queue # <<>>
    /\ vs_queue' = Tail(vs_queue)
    /\ loops' = [loops EXCEPT ![t] = "check"]
    /\ LET bts == Head(vs_queue)
           p == Strip(bts.txt)
       IN  CASE bts.kind = "bad" ->
                  /\ message_queue' = message_queue \o DecodeErrorEvents
                  /\ UNCHANGED <<dec_utt, dec_hyp, last_partial_time, partial_seen>>
             [] bts.kind = "boundary" ->
                  /\ \E now \in Times :
                       message_queue' = message_queue \o
                          BoundaryEvents(bts.txt, dec_utt, now, partial_interval_ms)
                  /\ dec_utt' = dec_utt + 1
                  /\ dec_hyp' = ""
                  /\ UNCHANGED <<last_partial_time, partial_seen>>
             [] OTHER ->
                  /\ dec_hyp' = bts.txt
                  /\ \E now \in Times :
                       /\ partial_seen' =
                             IF p # ""
                             THEN Append(partial_seen, <<now, partial_interval_ms>>)
                             ELSE partial_seen
                       /\ IF PartialDue(p, now, last_partial_time, partial_interval_ms)
                          THEN /\ last_partial_time' = now
                               /\ message_queue' = Append(message_queue,
                                     Partial(p, dec_utt, now, partial_interval_ms))
                          ELSE UNCHANGED <<last_partial_time, message_queue>>
                  /\ UNCHANGED dec_utt
    /\ UNCHANGED <<vs_rec, vs_running, partial_interval_ms, starts, fed>>

\* A flush that throws the remaining hypothesis away.
FlushEventsNone(hyp, u) == <<>>

\* Lines 571-575: what the loop puts for the text of FinalResult()
FlushEvents(hyp, u) ==
    IF Strip(hyp) # "" THEN <<Transcription(Strip(hyp), u)>> ELSE <<>>

\* Lines 568-577: the loop has left the while; FinalResult() is flushed.
LoopFlush(t) ==
    /\ loops[t] = "flush"
    /\ loops' = [loops EXCEPT ![t] = "exited"]
    /\ message_queue' = message_queue \o FlushEvents(dec_hyp, dec_utt)
    /\ dec_hyp' = ""
    /\ dec_utt' = dec_utt + 1
    /\ UNCHANGED <<vs_rec, vs_running, vs_queue, partial_interval_ms,
                   last_partial_time, starts, fed, partial_seen>>

----------------------------------------------------------------------------
\* LowLatencyCapture and the sink of the application

\* Values the frame slider passes to _on_chunk_change (from_=10, to=120,
\* line 679), after int(float(val)).
ChunkStops == {10, 19, 120}

Max(a, b) == IF a >= b THEN a ELSE b

\* A frame size that stays at that of the default duration.
ChunkOfDefault(rate, chunk_ms) == Max(1, (rate * ChunkMs) \div 1000)

\* Lines 418, 766, 859: max(1, int(rate * chunk_ms / 1000))
ChunkOf(rate, chunk_ms) == Max(1, (rate * chunk_ms) \div 1000)

\* Bytes stream.read(n) returns on the paInt16 mono stream of line 451.
FrameBytes(n) == n * SampleWidth

\* __init__, lines 415-427: PyAudio may or may not be there; sink is None.
\* chunk_ms is the saved setting, or CONFIG["chunk_ms"] (line 631).
CapInit ==
    /\ cap_pa \in BOOLEAN
    /\ cap_chunk_ms \in {ChunkMs} \cup ChunkStops
    /\ cap_chunk = ChunkOf(SampleRate, cap_chunk_ms)
    /\ cap_running = FALSE
    /\ cap_stream = FALSE
    /\ cap_sink = "None"
    /\ cap_loops = 0
    /\ cap_opens = 0
    /\ cap_pc = [t \in Threads |-> "none"]
    /\ reads = 0
    /\ routes = <<>>

\* start(), lines 445-457
CapStart ==
    /\ cap_opens < MaxStarts
    /\ IF ~cap_pa \/ cap_running
       THEN UNCHANGED <<cap_running, cap_stream, cap_loops, cap_opens, cap_pc,
                        message_queue>>
       ELSE /\ cap_opens' = cap_opens + 1
            /\ \/ /\ cap_stream' = TRUE
                  /\ cap_running' = TRUE
                  /\ cap_loops' = cap_loops + 1
                  /\ cap_pc' = [cap_pc EXCEPT ![cap_loops + 1] = "check"]
                  /\ UNCHANGED message_queue
               \/ /\ message_queue' =
                        Append(message_queue, Status("Mic start failed", ColorError))
                  /\ UNCHANGED <<cap_running, cap_stream, cap_loops, cap_pc>>
    /\ UNCHANGED <<cap_pa, cap_sink, reads, routes, segment_queue>>
    /\ UNCHANGED chunkVars

\* stop(), lines 459-465: the stream is closed and dropped, unless
\* stop_stream() or close() raises, which leaves self.stream set.
CapStop ==
    /\ cap_running' = FALSE
    /\ \/ cap_stream' = FALSE
       \/ cap_stream /\ UNCHANGED cap_stream
    /\ UNCHANGED <<cap_pa, cap_sink, cap_loops, cap_opens, cap_pc, reads, routes,
                   segment_queue, message_queue>>
    /\ UNCHANGED chunkVars

\* Line 468: while self.running
CapLoopCheck(t) ==
    /\ cap_pc[t] = "check"
    /\ cap_pc' = [cap_pc EXCEPT ![t] = IF cap_running THEN "read" ELSE "exited"]
    /\ UNCHANGED <<cap_pa, cap_running, cap_stream, cap_sink, cap_loops, cap_opens,
                   reads, routes, segment_queue, message_queue>>
    /\ UNCHANGED chunkVars

\* The read-loop threads that have not returned from _read_loop.
CapLive == {t \in Threads : cap_pc[t] \in {"check", "read"}}

\* A read loop that gives up at the first read error.
CapReadErrorFatal(t) ==
    /\ cap_pc[t] = "read"
    /\ reads < MaxReads
    /\ reads' = reads + 1
    /\ message_queue' = Append(message_queue, Amplitude("0.0"))
    /\ cap_pc' = [cap_pc EXCEPT ![t] = "exited"]
    /\ cap_running' = FALSE
    /\ UNCHANGED <<cap_pa, cap_stream, cap_sink, cap_loops, cap_opens, routes,
                   segment_queue>>
    /\ UNCHANGED chunkVars

\* Lines 469-473: stream.read raises (device error, or stop() closed the stream).
CapReadError(t) ==
    /\ cap_pc[t] = "read"
    /\ reads < MaxReads
    /\ reads' = reads + 1
    /\ message_queue' = Append(message_queue, Amplitude("0.0"))
    /\ cap_pc' = [cap_pc EXCEPT ![t] = "check"]
    /\ UNCHANGED <<cap_pa, cap_running, cap_stream, cap_sink, cap_loops, cap_opens,
                   routes, segment_queue>>
    /\ UNCHANGED chunkVars

\* _on_chunk_change, lines 853-862, on the capture
OnChunkChange ==
    /\ \E v \in ChunkStops :
         /\ v # cap_chunk_ms
         /\ cap_chunk_ms' = v
         /\ cap_chunk' = ChunkOf(SampleRate, v)
    /\ UNCHANGED <<cap_pa, cap_running, cap_stream, cap_sink, cap_loops, cap_opens,
                   cap_pc, reads, routes, segment_queue, message_queue>>

\* _capture_sink, lines 831-841: the queue the application's sink picks.
CaptureSink == IF vs_rec = "loaded" /\ vs_running THEN "vosk" ELSE "segment"

\* Lines 479-485: self.sink(data) if a sink is set, else segment_queue.put(data)
RouteOf(sink) == IF sink = "_capture_sink" THEN CaptureSink ELSE "segment"

\* What stream.read returns: sound the decoder would take as speech, with
\* words in it or without.
Captured == {f \in Frames : f.kind = "speech"}

\* Lines 470, 474-486: a frame is read, its amplitude is put and it is passed on.
CapRead(t) ==
    /\ cap_pc[t] = "read"
    /\ cap_stream
    /\ reads < MaxReads
    /\ reads' = reads + 1
    /\ message_queue' = Append(message_queue, Amplitude("rms"))
    /\ \E data \in Captured :
         LET to == RouteOf(cap_sink)
         IN  /\ routes' = Append(routes, [to |-> to, running |-> vs_running,
                                           ms |-> cap_chunk_ms,
                                           bytes |-> FrameBytes(cap_chunk)])
             /\ IF to = "vosk"
                THEN /\ vs_queue' = Feed(vs_queue, data)
                     /\ UNCHANGED segment_queue
                ELSE /\ segment_queue' = Append(segment_queue, data)
                     /\ UNCHANGED vs_queue
    /\ cap_pc' = [cap_pc EXCEPT ![t] = "check"]
    /\ UNCHANGED <<cap_pa, cap_running, cap_stream, cap_sink, cap_loops, cap_opens>>
    /\ UNCHANGED chunkVars

----------------------------------------------------------------------------
\* GoogleSegmentWorker

GwInit ==
    /\ gw_running = FALSE
    /\ gw_pc = [t \in Threads |-> "none"]
    /\ gw_starts = 0
    /\ seg_outcomes = <<>>

\* The worker threads that have not returned from _loop.
GwLive == {t \in Threads : gw_pc[t] \in {"check", "get"}}

\* What becomes of a chunk: recognize_google returns a text or a blank text,
\* raises UnknownValueError (no speech), RequestError or another exception
\* ("crash"), or sr.AudioData itself raises ("baddata").
Outcomes == {"text", "blank", "unknown", "request", "crash", "baddata"}

\* start(), lines 589-592
GwStart ==
    /\ gw_starts < MaxStarts
    /\ IF gw_running
       THEN UNCHANGED <<gw_running, gw_pc, gw_starts>>
       ELSE /\ gw_running' = TRUE
            /\ gw_starts' = gw_starts + 1
            /\ gw_pc' = [gw_pc EXCEPT ![gw_starts + 1] = "check"]
    /\ UNCHANGED <<seg_outcomes, segment_queue, message_queue>>

\* stop(), lines 594-595
GwStop ==
    /\ gw_running' = FALSE
    /\ UNCHANGED <<gw_pc, gw_starts, seg_outcomes, segment_queue, message_queue>>

\* Line 598: while self.running
GwLoopCheck(t) ==
    /\ gw_pc[t] = "check"
    /\ gw_pc' = [gw_pc EXCEPT ![t] = IF gw_running THEN "get" ELSE "exited"]
    /\ UNCHANGED <<gw_running, gw_starts, seg_outcomes, segment_queue,
                   message_queue>>

\* Lines 599-602: segment_queue.get(timeout=0.5) raises queue.Empty
GwLoopTimeout(t) ==
    /\ gw_pc[t] = "get"
    /\ segment_queue = <<>>
    /\ gw_pc' = [gw_pc EXCEPT ![t] = "check"]
    /\ UNCHANGED <<gw_running, gw_starts, seg_outcomes, segment_queue,
                   message_queue>>

\* Line 483 (and 837): a frame the capture read is put on segment_queue.
SegPut ==
    /\ Len(seg_outcomes) + Len(segment_queue) < MaxFrames
    /\ Len(segment_queue) < MaxQueue
    /\ \E data \in Captured : segment_queue' = Append(segment_queue, data)
    /\ UNCHANGED <<gw_running, gw_pc, gw_starts, seg_outcomes, message_queue>>

\* A worker that reports every failure of recognize_google as an error.
RecognitionEventsAllErrors(outcome, seg) ==
    IF outcome = "baddata"
    THEN <<SegStatus("Google worker error", ColorError, seg)>>
    ELSE <<SegStatus("Recognizing...", ColorReady, seg)>> \o
         (CASE outcome = "text" -> <<SegTranscription("hi", seg)>>
            [] outcome \in {"request", "unknown"} ->
                  <<SegStatus("Network/ASR Error", ColorError, seg)>>
            [] OTHER -> <<>>) \o
         <<SegStatus("Listening...", ColorListening, seg)>> \o
         (IF outcome = "crash"
          THEN <<SegStatus("Google worker error", ColorError, seg)>>
          ELSE <<>>)

\* A worker that keeps transport errors to itself.
RecognitionEventsMuteErrors(outcome, seg) ==
    IF outcome = "baddata"
    THEN <<SegStatus("Google worker error", ColorError, seg)>>
    ELSE <<SegStatus("Recognizing...", ColorReady, seg)>> \o
         (IF outcome = "text" THEN <<SegTranscription("hi", seg)>> ELSE <<>>) \o
         <<SegStatus("Listening...", ColorListening, seg)>> \o
         (IF outcome = "crash"
          THEN <<SegStatus("Google worker error", ColorError, seg)>>
          ELSE <<>>)

\* Lines 603-617: the events one chunk gives rise to
RecognitionEvents(outcome, seg) ==
    IF outcome = "baddata"
    THEN <<SegStatus("Google worker error", ColorError, seg)>>
    ELSE <<SegStatus("Recognizing...", ColorReady, seg)>> \o
         (CASE outcome = "text" -> <<SegTranscription("hi", seg)>>
            [] outcome = "request" ->
                  <<SegStatus("Network/ASR Error", ColorError, seg)>>
            [] OTHER -> <<>>) \o
         <<SegStatus("Listening...", ColorListening, seg)>> \o
         (IF outcome = "crash"
          THEN <<SegStatus("Google worker error", ColorError, seg)>>
          ELSE <<>>)

\* Lines 599-617: a chunk is taken and sent to the remote recognizer.
GwRecognize(t) ==
    /\ gw_pc[t] = "get"
    /\ segment_queue # <<>>
    /\ segment_queue' = Tail(segment_queue)
    /\ \E outcome \in Outcomes :
         /\ seg_outcomes' = Append(seg_outcomes, outcome)
         /\ message_queue' = message_queue \o
               RecognitionEvents(outcome, Len(seg_outcomes) + 1)
    /\ gw_pc' = [gw_pc EXCEPT ![t] = "check"]
    /\ UNCHANGED <<gw_running, gw_starts>>

----------------------------------------------------------------------------
\* GeminiStreamingAutoDLApp: the startup thread, the model loader, the
\* handlers of the window and the consumer of message_queue

\* __init__, lines 631-639: the first _auto_model_and_start thread is spawned.
AppInit ==
    /\ auto_pc = [t \in Threads |-> IF t = 1 THEN "begin" ELSE "none"]
    /\ load_pc = [t \in Threads |-> "none"]
    /\ closed = FALSE
    /\ received = <<>>

\* _load_vosk_model(path), line 829: the _load thread is spawned; path is
\* target_dir ("target") or a directory the user named ("user").
SpawnLoad(path) == \E l \in Threads :
    /\ load_pc[l] = "none"
    /\ \A k \in Threads : k < l => load_pc[k] # "none"
    /\ load_pc' = [load_pc EXCEPT ![l] = path]

\* The _auto_model_and_start threads that are inside auto_download_model.
InFlight == {t \in Threads : auto_pc[t] = "download"}

\* A startup thread that leaves the fallback worker alone.
AutoStartWorkerNever(t) ==
    /\ auto_pc[t] = "begin"
    /\ auto_pc' = [auto_pc EXCEPT ![t] = "capture"]
    /\ UNCHANGED <<provVars, vsVars, capVars, gwVars, load_pc, closed, received,
                   segment_queue, message_queue>>

\* _auto_model_and_start, line 752: self.google_worker.start()
AutoStartWorker(t) ==
    /\ auto_pc[t] = "begin"
    /\ auto_pc' = [auto_pc EXCEPT ![t] = "capture"]
    /\ GwStart
    /\ UNCHANGED <<provVars, vsVars, capVars, load_pc, closed, received>>

\* Lines 754-767: the saved frame duration is applied (it is the one the
\* capture already has) and self.capture.start() is called.
AutoStartCapture(t) ==
    /\ auto_pc[t] = "capture"
    /\ auto_pc' = [auto_pc EXCEPT ![t] = "vosk"]
    /\ CapStart
    /\ UNCHANGED <<provVars, vsVars, gwVars, load_pc, closed, received>>

\* Lines 769-778: import vosk fails.
AutoNoVosk(t) ==
    /\ auto_pc[t] = "vosk"
    /\ auto_pc' = [auto_pc EXCEPT ![t] = "done"]
    /\ message_queue' = Append(message_queue,
          Status("VOSK not available - running fallback", ColorError))
    /\ UNCHANGED <<provVars, vsVars, capVars, gwVars, load_pc, closed, received,
                   segment_queue>>

\* Lines 780-783: target_dir is a directory; the model is loaded from it.
AutoModelFound(t) ==
    /\ auto_pc[t] = "vosk"
    /\ ModelPresent
    /\ auto_pc' = [auto_pc EXCEPT ![t] = "done"]
    /\ SpawnLoad("target")
    /\ UNCHANGED <<provVars, vsVars, capVars, gwVars, closed, received,
                   segment_queue, message_queue>>

\* Lines 781, 785-792: target_dir is no directory; auto_download_model is
\* entered.
AutoDownloadEnter(t) ==
    /\ auto_pc[t] = "vosk"
    /\ ~ModelPresent
    /\ auto_pc' = [auto_pc EXCEPT ![t] = "download"]
    /\ UNCHANGED <<provVars, vsVars, capVars, gwVars, load_pc, closed, received,
                   segment_queue, message_queue>>

\* Lines 792-796 with 194-243: auto_download_model returns True, having found
\* target_dir there or installed it from a mirror (or not, when the move of
\* lines 236-242 failed); the model is loaded. Of the statuses the call puts,
\* the first and the last are kept.
AutoDownloadOk(t) ==
    /\ auto_pc[t] = "download"
    /\ auto_pc' = [auto_pc EXCEPT ![t] = "done"]
    /\ IF ModelPresent
       THEN /\ message_queue' = Append(message_queue,
                  Status("Model already present", ColorReady))
            /\ UNCHANGED <<fs_dirs, fs_files>>
       ELSE /\ message_queue' = message_queue \o
                  <<Status("Trying", ColorReady), Status("Model ready", ColorReady)>>
            /\ \/ /\ fs_dirs' = fs_dirs \cup {"T"}
                  /\ \E m \in Mirrors :
                       fs_files' = [p \in Paths |->
                                      IF p \in {"T/a", "T/b"} THEN m ELSE fs_files[p]]
               \/ UNCHANGED <<fs_dirs, fs_files>>
    /\ SpawnLoad("target")
    /\ UNCHANGED <<zip_file, part_file, prov_pc, url_idx, arch, ext_i, result,
                   attempts, entry_dir, calls, prov_status>>
    /\ UNCHANGED <<vsVars, capVars, gwVars, closed, received, segment_queue>>

\* Lines 792, 797-798 with 201-245: every mirror failed.
AutoDownloadFailed(t) ==
    /\ auto_pc[t] = "download"
    /\ ~ModelPresent
    /\ auto_pc' = [auto_pc EXCEPT ![t] = "done"]
    /\ message_queue' = message_queue \o
          <<Status("Trying", ColorReady),
            Status("All downloads failed", ColorReady),
            Status("Auto-download failed - running fallback", ColorError)>>
    /\ UNCHANGED <<provVars, vsVars, capVars, gwVars, load_pc, closed, received,
                   segment_queue>>

\* _on_load_model, lines 800-811: a path that is a directory is loaded; with
\* no path, or one that is no directory, _auto_model_and_start is spawned.
OnLoadModel ==
    /\ ~closed
    /\ \/ /\ SpawnLoad("user")
          /\ UNCHANGED auto_pc
       \/ /\ \E t \in Threads :
               /\ auto_pc[t] = "none"
               /\ \A k \in Threads : k < t => auto_pc[k] # "none"
               /\ auto_pc' = [auto_pc EXCEPT ![t] = "begin"]
          /\ UNCHANGED load_pc
    /\ UNCHANGED <<provVars, vsVars, capVars, gwVars, closed, received,
                   segment_queue, message_queue>>

\* _load of _load_vosk_model, lines 814-826, with VoskStreamer.load: the new
\* recognizer loads; the one in place is stopped and replaced, and the new
\* one started at once (lines 820-823): stop() only clears the flag of the
\* old object, so a decode loop of it that is alive stays alive, "replaced",
\* until it tests that flag.
LoadOk(l) ==
    /\ load_pc[l] \in {"target", "user"}
    /\ load_pc[l] = "target" => DirState = "nonempty"
    /\ starts < MaxStarts
    /\ load_pc' = [load_pc EXCEPT ![l] = "done"]
    /\ message_queue' = message_queue \o
          <<Status("Loading model...", ColorReady),
            Status("Loading VOSK model...", ColorReady),
            Status("VOSK model loaded", ColorReady),
            Status("VOSK loaded & streaming", ColorReady)>>
    /\ vs_rec' = "loaded"
    /\ vs_running' = TRUE
    /\ starts' = starts + 1
    /\ loops' = [t \in Threads |->
                   IF t = starts + 1 THEN "check"
                   ELSE IF loops[t] \in {"check", "get", "flush"}
                        THEN "replaced"
                        ELSE loops[t]]
    /\ vs_queue' = <<>>
    /\ last_partial_time' = 0
    /\ UNCHANGED <<partial_interval_ms, dec_utt, dec_hyp, fed, partial_seen>>
    /\ UNCHANGED <<provVars, capVars, gwVars, auto_pc, closed, received,
                   segment_queue>>

\* Lines 540-544 and 568-577 for the loop of a replaced recognizer: within
\* the half second of its get() it finds its own flag down and leaves; its
\* queue never had a frame, so FinalResult() has no text and nothing is put.
ReplacedLoopExit(t) ==
    /\ loops[t] = "replaced"
    /\ loops' = [loops EXCEPT ![t] = "exited"]
    /\ UNCHANGED <<vs_rec, vs_running, vs_queue, partial_interval_ms,
                   last_partial_time, dec_utt, dec_hyp, starts, fed,
                   partial_seen>>
    /\ UNCHANGED <<provVars, capVars, gwVars, appVars, segment_queue,
                   message_queue>>

\* Lines 814-818, 825-826 with 500-521: load() returns False.
LoadFailed(l) ==
    /\ load_pc[l] \in {"target", "user"}
    /\ load_pc' = [load_pc EXCEPT ![l] = "done"]
    /\ \E why \in {"VOSK import failed", "VOSK model path missing",
                   "VOSK load failed"} :
         message_queue' = message_queue \o
            <<Status("Loading model...", ColorReady), Status(why, ColorError),
              Status("VOSK load failed", ColorError)>>
    /\ UNCHANGED <<provVars, vsVars, capVars, gwVars, auto_pc, closed, received,
                   segment_queue>>

\* _on_close, lines 900-907
OnClose ==
    /\ ~closed
    /\ closed' = TRUE
    /\ CapStop
    /\ VsStop
    /\ GwStop
    /\ UNCHANGED <<provVars, auto_pc, load_pc, received>>

\* A consumer that takes the newest message first.
TakeNewest(q) == <<q[Len(q)], SubSeq(q, 1, Len(q) - 1)>>

\* Line 716: message_queue.get_nowait() on the FIFO queue.Queue of line 113
Take(q) == <<Head(q), Tail(q)>>

\* _process_queue, lines 713-734: one message is taken and shown.
ProcessQueue ==
    /\ message_queue # <<>>
    /\ LET got == Take(message_queue)
       IN  /\ received' = Append(received, got[1])
           /\ message_queue' = got[2]
    /\ UNCHANGED <<provVars, vsVars, capVars, gwVars, auto_pc, load_pc, closed,
                   segment_queue>>

----------------------------------------------------------------------------
\* Specifications

\* No application around the components: no thread of its own, no consumer.
AppIdle ==
    /\ auto_pc = [t \in Threads |-> "none"]
    /\ load_pc = [t \in Threads |-> "none"]
    /\ closed = FALSE
    /\ received = <<>>

QueuesInit ==
    /\ segment_queue = <<>>
    /\ message_queue = <<>>

\* The capture without a device, for the specifications it takes no part in.
CapIdle == CapInit /\ ~cap_pa /\ cap_chunk_ms = ChunkMs

\* ---- auto_download_model alone, called up to MaxCalls times
ProvInit ==
    /\ \E d \in {"absent", "empty", "installed"} : ProvInitWith(d)
    /\ VsInit /\ CapIdle /\ GwInit /\ QueuesInit /\ AppIdle

ProvFrame ==
    UNCHANGED <<vsVars, capVars, gwVars, appVars, segment_queue, message_queue>>

ProvNext ==
    \/ ProvCall /\ ProvFrame
    \/ ProvExhausted /\ ProvFrame
    \/ DownloadOpen /\ ProvFrame
    \/ DownloadRefused /\ ProvFrame
    \/ DownloadChunk /\ ProvFrame
    \/ DownloadFail /\ ProvFrame
    \/ DownloadFinish /\ ProvFrame
    \/ ExtractMember /\ ProvFrame
    \/ ExtractFail /\ ProvFrame
    \/ LocateExact /\ ProvFrame
    \/ LocateOther /\ ProvFrame
    \/ LocateNone /\ ProvFrame
    \/ ProvReturn /\ ProvFrame

SpecProv == ProvInit /\ [][ProvNext]_vars

\* ---- one VoskStreamer, fed by its caller
StreamInit ==
    /\ ProvInitWith("absent")
    /\ VsInit /\ CapIdle /\ GwInit /\ QueuesInit /\ AppIdle

VsFrame == UNCHANGED <<provVars, capVars, gwVars, appVars, segment_queue>>

\* The streamer under any start() / stop() calls.
StreamNext ==
    \/ VsLoad /\ VsFrame
    \/ VsStart /\ VsFrame
    \/ VsStop /\ VsFrame
    \/ VsFeed /\ VsFrame
    \/ OnPartialChange /\ VsFrame
    \/ \E t \in Threads : LoopCheck(t) /\ VsFrame
    \/ \E t \in Threads : LoopTimeout(t) /\ VsFrame
    \/ \E t \in Threads : LoopDecode(t) /\ VsFrame
    \/ \E t \in Threads : LoopFlush(t) /\ VsFrame

SpecStream == StreamInit /\ [][StreamNext]_vars

\* The streamer started once: one decode loop from start() to its exit.
SessionNext ==
    \/ VsLoad /\ VsFrame
    \/ starts = 0 /\ VsStart /\ VsFrame
    \/ VsStop /\ VsFrame
    \/ VsFeed /\ VsFrame
    \/ OnPartialChange /\ VsFrame
    \/ \E t \in Threads : LoopCheck(t) /\ VsFrame
    \/ \E t \in Threads : LoopTimeout(t) /\ VsFrame
    \/ \E t \in Threads : LoopDecode(t) /\ VsFrame
    \/ \E t \in Threads : LoopFlush(t) /\ VsFrame

SpecSession == StreamInit /\ [][SessionNext]_vars

\* The decode thread is scheduled: a step of the loop that stays possible is
\* taken. queue.get(timeout=0.5) returns or raises queue.Empty within half a
\* second (lines 541-544), so the loop is never blocked for good.
SessionFairness ==
    \A t \in Threads :
        /\ WF_vars(LoopCheck(t) /\ VsFrame)
        /\ WF_vars(LoopTimeout(t) /\ VsFrame)
        /\ WF_vars(LoopDecode(t) /\ VsFrame)
        /\ WF_vars(LoopFlush(t) /\ VsFrame)

SpecSessionLive == SpecSession /\ SessionFairness

\* ---- the capture and the streamer's life cycle, as the application wires
\* them. No frame reaches the streamer's queue here, so its loop only checks
\* the flag, times out and exits.
CaptureInit ==
    /\ ProvInitWith("absent")
    /\ VsInit /\ CapInit /\ GwInit /\ QueuesInit /\ AppIdle
    /\ cap_chunk_ms = ChunkMs

CapFrame ==
    UNCHANGED <<provVars, gwVars, appVars, vs_rec, vs_running,
                partial_interval_ms, last_partial_time, loops, dec_utt, dec_hyp,
                starts, fed, partial_seen>>

VsInCapture == UNCHANGED <<provVars, capVars, gwVars, appVars, segment_queue>>

CaptureNext ==
    \/ CapStart /\ CapFrame /\ UNCHANGED vs_queue
    \/ CapStop /\ CapFrame /\ UNCHANGED vs_queue
    \/ \E t \in Threads : CapLoopCheck(t) /\ CapFrame /\ UNCHANGED vs_queue
    \/ \E t \in Threads : CapReadError(t) /\ CapFrame /\ UNCHANGED vs_queue
    \/ \E t \in Threads : CapRead(t) /\ CapFrame
    \/ VsLoad /\ VsInCapture
    \/ VsStart /\ VsInCapture
    \/ VsStop /\ VsInCapture
    \/ \E t \in Threads : LoopCheck(t) /\ VsInCapture
    \/ \E t \in Threads : LoopTimeout(t) /\ VsInCapture
    \/ \E t \in Threads : LoopFlush(t) /\ VsInCapture

SpecCapture == CaptureInit /\ [][CaptureNext]_vars

\* ---- the fallback worker and the frames that reach segment_queue
FallbackInit ==
    /\ ProvInitWith("absent")
    /\ VsInit /\ CapIdle /\ GwInit /\ QueuesInit /\ AppIdle

GwFrame == UNCHANGED <<provVars, vsVars, capVars, appVars>>

FallbackNext ==
    \/ SegPut /\ GwFrame
    \/ GwStart /\ GwFrame
    \/ GwStop /\ GwFrame
    \/ \E t \in Threads : GwLoopCheck(t) /\ GwFrame
    \/ \E t \in Threads : GwLoopTimeout(t) /\ GwFrame
    \/ \E t \in Threads : GwRecognize(t) /\ GwFrame

SpecFallback == FallbackInit /\ [][FallbackNext]_vars

\* ---- the application's threads and the handlers of its window. The loops
\* of the components the threads start are left to the specifications above
\* and to SpecStartup.
ApplicationInit ==
    /\ \E d \in {"absent", "installed"} : ProvInitWith(d)
    /\ VsInit /\ CapInit /\ GwInit /\ QueuesInit /\ AppInit
    /\ cap_chunk_ms = ChunkMs

ApplicationNext ==
    \/ \E t \in Threads : AutoStartWorker(t)
    \/ \E t \in Threads : AutoStartCapture(t)
    \/ \E t \in Threads : AutoNoVosk(t)
    \/ \E t \in Threads : AutoModelFound(t)
    \/ \E t \in Threads : AutoDownloadEnter(t)
    \/ \E t \in Threads : AutoDownloadOk(t)
    \/ \E t \in Threads : AutoDownloadFailed(t)
    \/ \E l \in Threads : LoadOk(l)
    \/ \E l \in Threads : LoadFailed(l)
    \/ \E t \in Threads : ReplacedLoopExit(t)
    \/ OnLoadModel
    \/ OnClose

SpecApplication == ApplicationInit /\ [][ApplicationNext]_vars

\* ---- the startup sequence of the application with the loops of the
\* components it starts, while the window is open. No frame reaches the streamer's queue (the sink of the capture
\* is never set), so its loop only checks the flag and times out.
CapInApp == UNCHANGED <<provVars, vsVars, gwVars, appVars>>

VsInApp == UNCHANGED <<provVars, capVars, gwVars, appVars, segment_queue>>

GwInApp == UNCHANGED <<provVars, vsVars, capVars, appVars>>

StartupNext ==
    \/ \E t \in Threads : AutoStartWorker(t)
    \/ \E t \in Threads : AutoStartCapture(t)
    \/ \E t \in Threads : AutoNoVosk(t)
    \/ \E t \in Threads : AutoModelFound(t)
    \/ \E t \in Threads : AutoDownloadEnter(t)
    \/ \E t \in Threads : AutoDownloadOk(t)
    \/ \E t \in Threads : AutoDownloadFailed(t)
    \/ \E l \in Threads : LoadOk(l)
    \/ \E l \in Threads : LoadFailed(l)
    \/ \E t \in Threads : CapLoopCheck(t) /\ CapInApp
    \/ \E t \in Threads : CapReadError(t) /\ CapInApp
    \/ \E t \in Threads : CapRead(t) /\ CapInApp
    \/ \E t \in Threads : LoopCheck(t) /\ VsInApp
    \/ \E t \in Threads : LoopTimeout(t) /\ VsInApp
    \/ \E t \in Threads : GwLoopCheck(t) /\ GwInApp
    \/ \E t \in Threads : GwLoopTimeout(t) /\ GwInApp
    \/ \E t \in Threads : GwRecognize(t) /\ GwInApp

SpecStartup == ApplicationInit /\ [][StartupNext]_vars

\* ---- the same with the consumer of message_queue: the producers are the
\* startup thread (with the statuses of the provisioner), the loader with the
\* recognizer it loads, the capture and the fallback worker.
BusNext ==
    \/ \E t \in Threads : AutoStartWorker(t)
    \/ \E t \in Threads : AutoStartCapture(t)
    \/ \E t \in Threads : AutoNoVosk(t)
    \/ \E t \in Threads : AutoModelFound(t)
    \/ \E t \in Threads : AutoDownloadEnter(t)
    \/ \E t \in Threads : AutoDownloadOk(t)
    \/ \E t \in Threads : AutoDownloadFailed(t)
    \/ \E l \in Threads : LoadOk(l)
    \/ \E l \in Threads : LoadFailed(l)
    \/ ProcessQueue
    \/ \E t \in Threads : CapLoopCheck(t) /\ CapInApp
    \/ \E t \in Threads : CapReadError(t) /\ CapInApp
    \/ \E t \in Threads : CapRead(t) /\ CapInApp
    \/ \E t \in Threads : LoopCheck(t) /\ VsInApp
    \/ \E t \in Threads : LoopTimeout(t) /\ VsInApp
    \/ \E t \in Threads : GwLoopCheck(t) /\ GwInApp
    \/ \E t \in Threads : GwLoopTimeout(t) /\ GwInApp
    \/ \E t \in Threads : GwRecognize(t) /\ GwInApp

SpecBus == ApplicationInit /\ [][BusNext]_vars

\* ---- the capture alone, with the frame slider
FramesInit ==
    /\ ProvInitWith("absent")
    /\ VsInit /\ CapInit /\ GwInit /\ QueuesInit /\ AppIdle

FramesFrame == UNCHANGED <<provVars, vsVars, gwVars, appVars>>

FramesNext ==
    \/ CapStart /\ FramesFrame
    \/ CapStop /\ FramesFrame
    \/ OnChunkChange /\ FramesFrame
    \/ \E t \in Threads : CapLoopCheck(t) /\ FramesFrame
    \/ \E t \in Threads : CapReadError(t) /\ FramesFrame
    \/ \E t \in Threads : CapRead(t) /\ FramesFrame

SpecFrames == FramesInit /\ [][FramesNext]_vars

\* ---- the three components, each driven on its own: a behaviour exercises
\* the streamer, the capture or the fallback worker.
StreamerUntouched == vs_rec = "unloaded" /\ fed = 0

CaptureUntouched == cap_opens = 0

WorkerUntouched ==
    gw_starts = 0 /\ seg_outcomes = <<>> /\ segment_queue = <<>>

StreamerAlone == CaptureUntouched /\ WorkerUntouched

CaptureAlone ==
    StreamerUntouched /\ gw_starts = 0 /\ Len(segment_queue) = Len(routes)

WorkerAlone == StreamerUntouched /\ CaptureUntouched

ComponentsNext ==
    \/ StreamerAlone /\ VsLoad /\ VsFrame
    \/ StreamerAlone /\ starts = 0 /\ VsStart /\ VsFrame
    \/ StreamerAlone /\ VsStop /\ VsFrame
    \/ StreamerAlone /\ VsFeed /\ VsFrame
    \/ \E t \in Threads : LoopCheck(t) /\ VsFrame
    \/ \E t \in Threads : LoopTimeout(t) /\ VsFrame
    \/ \E t \in Threads : LoopDecode(t) /\ VsFrame
    \/ \E t \in Threads : LoopFlush(t) /\ VsFrame
    \/ CaptureAlone /\ CapStart /\ FramesFrame
    \/ CaptureAlone /\ CapStop /\ FramesFrame
    \/ \E t \in Threads : CapLoopCheck(t) /\ FramesFrame
    \/ \E t \in Threads : CapReadError(t) /\ FramesFrame
    \/ \E t \in Threads : CapRead(t) /\ FramesFrame
    \/ WorkerAlone /\ SegPut /\ GwFrame
    \/ WorkerAlone /\ GwStart /\ GwFrame
    \/ WorkerAlone /\ GwStop /\ GwFrame
    \/ \E t \in Threads : GwLoopCheck(t) /\ GwFrame
    \/ \E t \in Threads : GwLoopTimeout(t) /\ GwFrame
    \/ \E t \in Threads : GwRecognize(t) /\ GwFrame

SpecComponents == CaptureInit /\ [][ComponentsNext]_vars

----------------------------------------------------------------------------
\* Claims about asset provisioning (checked under SpecProv)

\* C4: a call of auto_download_model that finds target_dir existing and
\* non-empty returns True and has contacted no mirror.
C4_PresentNoNetwork ==
    (prov_pc = "done" /\ entry_dir = "nonempty")
        => (result = TRUE /\ attempts = <<>>)

C4_Witness ==
    /\ prov_pc = "done"
    /\ entry_dir = "nonempty"
    /\ result = TRUE
    /\ calls = 1

\* C5: when mirrors 1..N-1 fail and mirror N succeeds, on return only data
\* of mirror N is on disk and no .part file remains.
C5_OnlyLastMirrorOnDisk ==
    (/\ prov_pc = "done"
     /\ result = TRUE
     /\ calls = 1
     /\ entry_dir = "absent"
     /\ attempts = [i \in 1..NumMirrors |-> i]
     /\ url_idx = NumMirrors
     /\ arch = "exact")
        => (/\ part_file = NoFile
            /\ zip_file.src \in {0, NumMirrors}
            /\ \A p \in Paths : fs_files[p] \in {0, NumMirrors})

\* C9: after an extraction that failed part-way, target_dir does not exist
\* or holds the complete model.
C9_NeverHalfPopulated ==
    (entry_dir = "absent" /\ prov_status = "Extract error")
        => ("T" \notin fs_dirs \/ TargetFiles = {"T/a", "T/b"})

\* C10: the file at zip_path changes only by the rename of a completely
\* written .part file (or by its removal); chunks never land in it.
C10_ZipOnlyByRename ==
    [][zip_file' # zip_file =>
          \/ zip_file' = NoFile
          \/ /\ zip_file' = part_file
             /\ part_file.n = StreamChunks
             /\ part_file' = NoFile]_vars

C10_Witness ==
    /\ zip_file.src # 0
    /\ zip_file.n = StreamChunks
    /\ part_file = NoFile

\* C11: within one call the mirrors contacted are the first ones of the list,
\* in list order and each once, and while the call is still going through
\* the mirrors none of them has given it a model yet (its result is not set).
C11_MirrorsInOrderFirstWins ==
    /\ Len(attempts) <= NumMirrors
    /\ attempts = [i \in 1..Len(attempts) |-> i]
    /\ prov_pc \in {"trying", "streaming", "extract"} => result = "none"
    /\ (prov_pc = "done" /\ result = TRUE /\ attempts # <<>>)
          => attempts[Len(attempts)] = url_idx

\* The first mirror failed and the second one gave the model.
C11_Witness ==
    /\ prov_pc = "done"
    /\ result = TRUE
    /\ attempts = <<1, 2>>
    /\ TargetFiles = {"T/a", "T/b"}

\* C23: a call that returns False after every mirror failed leaves no .part
\* file behind.
C23_NoPartFileAfterFailure ==
    (prov_pc = "done" /\ result = FALSE) => part_file = NoFile

\* C28: a call that went to the mirrors and returns True leaves target_dir
\* as a directory holding the whole model, and no archive at zip_path.
C28_SuccessMeansInstalled ==
    (prov_pc = "done" /\ result = TRUE /\ attempts # <<>>)
        => (/\ "T" \in fs_dirs
            /\ TargetFiles = {"T/a", "T/b"}
            /\ "V" \notin fs_dirs
            /\ zip_file = NoFile)

\* C12: a call of auto_download_model that finds target_dir existing but
\* empty does not take it for the model: it contacts a mirror.
C12_EmptyDirNotAccepted ==
    (prov_pc = "done" /\ entry_dir = "empty") => attempts # <<>>

----------------------------------------------------------------------------
\* Claims about the streaming recognizer

IsPartial(e) == e.type = "partial"

\* The times the partial events on message_queue carry, in queue order.
PartialTimes ==
    LET ps == SelectSeq(message_queue, IsPartial)
    IN  [i \in 1..Len(ps) |-> ps[i].at]

\* C1: two partial events of the same utterance are never put less than the
\* partial interval apart, on the clock the decode loop reads (the interval
\* being the one the loop compared with when it put the later event).
C1_PartialsSpaced ==
    \A i, j \in 1..Len(message_queue) :
        (/\ i < j
         /\ message_queue[i].type = "partial"
         /\ message_queue[j].type = "partial"
         /\ message_queue[i].utt = message_queue[j].utt)
            => message_queue[j].at - message_queue[i].at >= message_queue[j].iv

C1_Witness ==
    \E i, j \in 1..Len(message_queue) :
        /\ i < j
        /\ message_queue[i].type = "partial"
        /\ message_queue[j].type = "partial"
        /\ message_queue[i].utt = message_queue[j].utt
        /\ Len(partial_seen) > 2

C3_FinalNotRepeatedAsPartial ==
    \A i, j \in 1..Len(message_queue) :
        (/\ i < j
         /\ message_queue[i].type = "transcription"
         /\ message_queue[j].type = "partial"
         /\ message_queue[i].utt = message_queue[j].utt)
            => message_queue[j].text # message_queue[i].text

C3_Witness ==
    \E i, j \in 1..Len(message_queue) :
        /\ i < j
        /\ message_queue[i].type = "transcription"
        /\ message_queue[j].type = "partial"
        /\ message_queue[j].text = message_queue[i].text

\* C7: after start(), stop() and start() again the recognizer runs with one
\* decode loop, the one the second start() spawned.
C7_RestartHasOneLoop ==
    (starts = 2 /\ vs_running) => Live = {2}

\* C21: once the recognizer that was started is stopped, its decode loop
\* exits; a loop that finds the flag down takes no further frame; the step
\* that ends the loop puts the stripped remaining hypothesis as one
\* transcription when it is non-empty and puts nothing when it is empty; and
\* nothing but status messages is put once the loop has exited.
C21_StopEndsLoopWithOneFlush ==
    /\ (starts = 1 /\ ~vs_running) ~> (loops[1] = "exited")
    /\ [][/\ (~vs_running /\ loops[1] = "check" /\ loops'[1] # "check")
                  => loops'[1] = "flush"
          /\ (loops[1] = "flush" /\ loops'[1] = "exited") =>
                  message_queue' =
                     IF Strip(dec_hyp) # ""
                     THEN Append(message_queue,
                                 Transcription(Strip(dec_hyp), dec_utt))
                     ELSE message_queue
          /\ (loops[1] = "exited" /\ message_queue' # message_queue) =>
                  /\ Len(message_queue') > Len(message_queue)
                  /\ message_queue'[Len(message_queue')].type = "status"]_vars

\* The loop has exited after a stop() and its last message is the
\* transcription of the hypothesis a partial of the same utterance had shown.
C21_Witness ==
    /\ loops[1] = "exited"
    /\ ~vs_running
    /\ Len(message_queue) >= 2
    /\ message_queue[Len(message_queue)].type = "transcription"
    /\ message_queue[Len(message_queue) - 1].type = "partial"
    /\ message_queue[Len(message_queue) - 1].utt =
          message_queue[Len(message_queue)].utt

\* C24: the step that takes a frame whose decoding raises puts one error
\* status and nothing else, drops the frame, and leaves the loop alive with
\* the decoder as it was; the running flag is raised only over a loaded
\* model and always with a new decode loop, and a running recognizer has a
\* decode loop alive.
C24_DecodeErrorDropsOneFrame ==
    /\ [](vs_running => Live # {})
    /\ [][/\ (/\ vs_queue # <<>>
               /\ Head(vs_queue).kind = "bad"
               /\ vs_queue' = Tail(vs_queue)) =>
                  /\ message_queue' =
                        Append(message_queue, Status("VOSK error", ColorError))
                  /\ Live' = Live
                  /\ UNCHANGED <<vs_running, vs_rec, dec_utt, dec_hyp,
                                 last_partial_time>>
          /\ (~vs_running /\ vs_running') =>
                  /\ vs_rec = "loaded"
                  /\ Cardinality(Live') = Cardinality(Live) + 1]_vars

\* The one decode loop reported a frame it could not decode and has put the
\* partial of a later frame since.
C24_Witness ==
    /\ starts = 1
    /\ Live = {1}
    /\ \E i, j \in 1..Len(message_queue) :
          /\ i < j
          /\ message_queue[i].text = "VOSK error"
          /\ message_queue[j].type = "partial"
          /\ \A k \in 1..Len(message_queue) :
                message_queue[k].text = "VOSK error" => k = i

\* C26: the partial interval the decode loop compares with is the same for
\* every partial of a session (one start() to its stop()).
C26_IntervalFixedInSession ==
    \A i, j \in 1..Len(message_queue) :
        (message_queue[i].type = "partial" /\ message_queue[j].type = "partial")
            => message_queue[i].iv = message_queue[j].iv

\* The clock readings of the hypotheses so far never went backwards.
ClockMonotone ==
    \A a, b \in 1..Len(partial_seen) :
        a < b => partial_seen[a][1] <= partial_seen[b][1]

\* C29: when an earlier utterance had a partial put, an utterance for which
\* the decoder has given a non-empty partial hypothesis has a partial put too
\* (the clock never going backwards).
C29_NextUtteranceGetsItsPartial ==
    (/\ Strip(dec_hyp) # ""
     /\ ClockMonotone
     /\ \E i \in 1..Len(message_queue) :
           /\ message_queue[i].type = "partial"
           /\ message_queue[i].utt < dec_utt)
        => \E j \in 1..Len(message_queue) :
              /\ message_queue[j].type = "partial"
              /\ message_queue[j].utt = dec_utt

\* C13: a recognizer that is running has a decoder a load() created, and as
\* long as no load() succeeded no start() has spawned a decode loop.
C13_RunningOnlyIfLoaded ==
    /\ vs_running => vs_rec = "loaded"
    /\ vs_rec # "loaded" => (starts = 0 /\ \A t \in Threads : loops[t] = "none")

\* A loaded recognizer was started and stopped, and its loop has not left yet.
C13_Witness ==
    /\ vs_rec = "loaded"
    /\ ~vs_running
    /\ starts = 1
    /\ Live = {1}

\* C15: at most one decode loop of a recognizer is alive at any time.
C15_AtMostOneLoopAlive == Cardinality(Live) <= 1

----------------------------------------------------------------------------
\* Claims about the fallback recognizer (checked under SpecFallback)

\* C6: a chunk for which the remote recognizer reports no speech gives rise to
\* no transcription event and no status event of error colour.
C6_SilentChunkIsSilent ==
    \A i \in 1..Len(message_queue) :
        (/\ message_queue[i].seg > 0
         /\ seg_outcomes[message_queue[i].seg] = "unknown")
           => /\ message_queue[i].type # "transcription"
              /\ message_queue[i].color # ColorError

\* A silent chunk was handled and the worker went on to the next chunk.
C6_Witness ==
    /\ Len(seg_outcomes) >= 2
    /\ seg_outcomes[1] = "unknown"
    /\ gw_starts = 1
    /\ \E i \in 1..Len(message_queue) : message_queue[i].seg = 1
    /\ \E i \in 1..Len(message_queue) : message_queue[i].seg = 2

\* C25: a chunk whose remote recognition failed with a RequestError has an
\* error status and no transcription; every chunk taken was sent to the
\* remote recognizer once (one "Recognizing..." per chunk that made an
\* AudioData), whatever became of the chunks before it.
C25_TransportErrorReported ==
    \A k \in 1..Len(seg_outcomes) :
        /\ seg_outcomes[k] = "request" =>
              /\ \E i \in 1..Len(message_queue) :
                    /\ message_queue[i].seg = k
                    /\ message_queue[i].type = "status"
                    /\ message_queue[i].color = ColorError
              /\ \A i \in 1..Len(message_queue) :
                    message_queue[i].seg = k =>
                        message_queue[i].type # "transcription"
        /\ seg_outcomes[k] # "baddata" =>
              Cardinality({i \in 1..Len(message_queue) :
                              /\ message_queue[i].seg = k
                              /\ message_queue[i].text = "Recognizing..."}) = 1

\* A transport error on the first chunk, and the same worker thread has
\* recognized the second.
C25_Witness ==
    /\ Len(seg_outcomes) >= 2
    /\ seg_outcomes[1] = "request"
    /\ seg_outcomes[2] = "text"
    /\ gw_starts = 1
    /\ \E i \in 1..Len(message_queue) :
          message_queue[i].seg = 2 /\ message_queue[i].type = "transcription"

----------------------------------------------------------------------------
\* Claims about the capture (checked under SpecCapture)

\* C8: a frame read while the streaming recognizer is running goes to its
\* queue, and a frame goes to segment_queue only when it is not running.
C8_FramesFollowTheStreamer ==
    \A i \in 1..Len(routes) :
        /\ routes[i].running => routes[i].to = "vosk"
        /\ routes[i].to = "segment" => ~routes[i].running

\* C30: at most one read loop of the capture is alive at any time.
C30_OneReadLoopAlive == Cardinality(CapLive) <= 1

\* C17: a stop() of a running capture leaves it with no open stream.
C17_StopReleasesStream ==
    [][(cap_running /\ ~cap_running') => ~cap_stream']_vars

\* n is the number of samples the claim gives for a frame of ms milliseconds.
IsSamplesFor(n, ms) ==
    \/ n * 1000 <= SampleRate * ms /\ SampleRate * ms < (n + 1) * 1000
    \/ n = 1 /\ SampleRate * ms < 1000

\* C20: the frame size is the integer part of sampleRate * frameDurationMs /
\* 1000 samples, at least 1, at construction and after every change of the
\* duration; every frame read holds 2 bytes per sample of the size then in
\* force; at 16000 Hz and 20 ms that is 320 samples, 640 bytes.
C20_FrameSize ==
    /\ IsSamplesFor(cap_chunk, cap_chunk_ms)
    /\ cap_chunk_ms = 20 => (cap_chunk = 320 /\ FrameBytes(cap_chunk) = 640)
    /\ \A i \in 1..Len(routes) :
          /\ routes[i].bytes % 2 = 0
          /\ IsSamplesFor(routes[i].bytes \div 2, routes[i].ms)
          /\ routes[i].ms = 20 => routes[i].bytes = 640

\* A frame of 640 bytes was read at 20 ms, the duration was changed, and a
\* frame of the new size was read.
C20_Witness ==
    /\ Len(routes) = 2
    /\ routes[1].ms = 20
    /\ routes[1].bytes = 640
    /\ routes[2].ms = 120
    /\ routes[2].bytes = 3840

----------------------------------------------------------------------------
\* Claims about the components' loops (checked under SpecComponents)

\* A step in which a component met an error of its own: a failed device
\* read, a decode exception, or a failure of the remote recognition.
ErrorStep ==
    \/ reads' = reads + 1 /\ routes' = routes
    \/ /\ Len(message_queue') = Len(message_queue) + 1
       /\ message_queue'[Len(message_queue')].text = "VOSK error"
    \/ /\ Len(seg_outcomes') = Len(seg_outcomes) + 1
       /\ seg_outcomes'[Len(seg_outcomes')] \in {"request", "crash", "baddata"}

\* C19: a step in which a component meets an error changes no running flag
\* and ends no loop; a running flag falls only in a step that does nothing
\* else to its component, that is, in a stop() call.
C19_ErrorsChangeNoState ==
    [][/\ ErrorStep =>
             /\ UNCHANGED <<vs_running, cap_running, gw_running>>
             /\ Live' = Live
             /\ CapLive' = CapLive
             /\ GwLive' = GwLive
       /\ (vs_running /\ ~vs_running') =>
             UNCHANGED <<loops, vs_queue, dec_utt, dec_hyp, message_queue>>
       /\ (cap_running /\ ~cap_running') =>
             UNCHANGED <<cap_pc, reads, routes, message_queue>>
       /\ (gw_running /\ ~gw_running') =>
             UNCHANGED <<gw_pc, seg_outcomes, segment_queue, message_queue>>]_vars

\* The decode loop met an exception and has decoded a later frame since.
C19_Witness ==
    /\ vs_running
    /\ Live = {1}
    /\ \E i, j \in 1..Len(message_queue) :
          /\ i < j
          /\ message_queue[i].text = "VOSK error"
          /\ message_queue[j].type = "transcription"

----------------------------------------------------------------------------
\* Claims about the application (checked under SpecApplication)

\* C22: no decode loop of a replaced recognizer is alive while a decode loop
\* of the recognizer that replaced it is.
C22_OldLoopGoneBeforeNewStarts ==
    ~(\E t \in Threads : loops[t] = "replaced" /\ Live # {})

\* C16: at most one call of auto_download_model is in flight at any time.
C16_OneProvisioningInFlight == Cardinality(InFlight) <= 1

----------------------------------------------------------------------------
\* Claims about the startup sequence (checked under SpecBus and SpecStartup)

\* Every message put so far: those taken, then those still queued.
Pushed == received \o message_queue

IsPrefix(a, b) == Len(a) <= Len(b) /\ a = SubSeq(b, 1, Len(a))

\* C14: the messages taken followed by the messages queued are, in every
\* step, what they were before plus what the step pushed at the end; and the
\* consumer takes one message at a time, the oldest, and takes it away.
C14_FifoExactlyOnce ==
    [][/\ IsPrefix(Pushed, Pushed')
       /\ received' # received =>
             /\ Len(received') = Len(received) + 1
             /\ Pushed' = Pushed
             /\ Len(message_queue') = Len(message_queue) - 1]_vars

\* Messages of the capture, of the loader and of the fallback worker have
\* been taken, and more are queued.
C14_Witness ==
    /\ \E i \in 1..Len(received) : received[i].type = "amplitude"
    /\ \E i \in 1..Len(received) : received[i].seg > 0
    /\ \E i \in 1..Len(received) : received[i].text = "Loading model..."
    /\ \E i \in 1..Len(received) : received[i].text = "Trying"
    /\ Len(message_queue) >= 2

\* The startup sequence ended without a streaming recognizer: the mirrors
\* were exhausted or the decoder did not load.
StartupFailed ==
    /\ \A t \in Threads : auto_pc[t] \in {"none", "done"}
    /\ \A l \in Threads : load_pc[l] \in {"none", "done"}
    /\ \E i \in 1..Len(Pushed) :
          Pushed[i].text \in {"Auto-download failed - running fallback",
                              "VOSK load failed"}

\* C27: when the startup thread has called capture.start() and the capture
\* is not running, a status message about the microphone has been put.
C27_OpenFailureReported ==
    (/\ \A t \in Threads : auto_pc[t] \in {"none", "vosk", "download", "done"}
     /\ ~cap_running)
        => \E i \in 1..Len(Pushed) : Pushed[i].text = "Mic start failed"

\* C18: after such a failure the fallback worker runs with its loop alive,
\* the capture runs with its loop alive if its device opened, and every
\* frame read has gone to segment_queue.
C18_FallbackOnlyAfterFailure ==
    StartupFailed =>
        /\ gw_running
        /\ GwLive # {}
        /\ cap_loops > 0 => (cap_running /\ CapLive # {})
        /\ \A i \in 1..Len(routes) : routes[i].to = "segment"

\* The mirrors were exhausted; a frame read after that was recognized by the
\* fallback worker.
C18_Witness ==
    /\ StartupFailed
    /\ vs_rec = "unloaded"
    /\ cap_running
    /\ Len(routes) = 2
    /\ Len(seg_outcomes) = 2
    /\ seg_outcomes[2] = "text"

====
